---- MODULE Spec2Model ----
(***************************************************************************)
(* Build-status aggregator (GET /api/[owner]/[repo]/[branch]/status) and   *)
(* the BuildStatus poller that calls it.                                   *)
(*                                                                         *)
(* Spec       : one request through the aggregator's GET handler.          *)
(* PollerSpec : the effect of the BuildStatus component (fetchStatus, the  *)
(*              10 s interval, the cleanup).                               *)
(***************************************************************************)
EXTENDS Integers, Sequences, FiniteSets, Bags, TLC

(***************************************************************************)
(* Bounds of the model.                                                    *)
(***************************************************************************)
\* Largest number of check-runs the upstream holds for the commit.
MaxRuns == 3
\* Page size of the check-run listing.  The handler asks for per_page: 100;
\* the model keeps the page smaller than MaxRuns so that a listing longer
\* than one page exists within the bounds.
PerPage == 2
\* Largest number of commit statuses in the combined status.
MaxStatuses == 1
\* Largest number of fetches in flight at once.
MaxInFlight == 2

(***************************************************************************)
(* Values of the upstream API.                                             *)
(***************************************************************************)
\* status / conclusion of a check-run; conclusion is null while incomplete.
RunKinds ==
    { [status |-> "queued",      conclusion |-> "null"],
      [status |-> "in_progress", conclusion |-> "null"],
      [status |-> "completed",   conclusion |-> "success"],
      [status |-> "completed",   conclusion |-> "failure"],
      [status |-> "completed",   conclusion |-> "cancelled"],
      [status |-> "completed",   conclusion |-> "timed_out"] }

\* state of the combined status; "absent" stands for a missing field.
CombinedStates == {"success", "pending", "failure", "error", "absent"}

\* state of one commit status
StatusStates == {"success", "pending", "failure", "error"}

Shas == {"sha1", "sha2"}

RECURSIVE SeqsUpTo(_, _)
SeqsUpTo(S, n) ==
    IF n = 0 THEN { <<>> }
    ELSE LET shorter == SeqsUpTo(S, n - 1)
         IN  shorter \cup { Append(s, x) : s \in { t \in shorter : Len(t) = n - 1 }, x \in S }

Min(a, b) == IF a < b THEN a ELSE b

(***************************************************************************)
(* State.                                                                  *)
(***************************************************************************)
VARIABLES
    \* ---- aggregator: one GET request
    pc,                 \* position of the handler
    head,               \* upstream: the commit the branch points to
    auth,               \* outcome of getAuth(): "unknown" until it returned
    calls,              \* getToken and the upstream calls made so far, in order
    sha,                \* branchData.data.commit.sha
    checkRunsResponse,  \* checkRunsResponse.data
    statusResponse,     \* statusResponse.data
    response,           \* the Response returned
    \* ---- poller: one BuildStatus component
    branch,             \* the (owner, repo, config.branch) key rendered; "none": no branch
    rendered,           \* "new": rendered, effect not run yet; "live"; "unmounted"
    buildStatus,        \* useState: {} for null, {data} otherwise
    loading,            \* useState
    error,              \* useState: "null" or the message
    failures,           \* let failures of the effect instance that ran last
    isMounted,          \* let isMounted of that instance
    interval,           \* the setInterval timer of that instance is armed
    effectKey,          \* owner / repo / config.branch in its closure
    firstLoad,          \* buildStatus === null in its closure
    inflight            \* bag of the fetchStatus calls suspended at an await

aggVars == <<pc, head, auth, calls, sha, checkRunsResponse, statusResponse, response>>
pollVars == <<branch, rendered, buildStatus, loading, error, failures, isMounted,
              interval, effectKey, firstLoad, inflight>>
vars == <<aggVars, pollVars>>

(***************************************************************************)
(* The reduction (part_000 lines 52-83).                                   *)
(***************************************************************************)
hasFailure_NoTimedOut(checkRuns) ==
    \E i \in 1..Len(checkRuns) :
        checkRuns[i].conclusion \in {"failure", "cancelled"}

hasFailure(checkRuns) ==
    \E i \in 1..Len(checkRuns) :
        checkRuns[i].conclusion \in {"failure", "cancelled", "timed_out"}

hasPending_InProgressOnly(checkRuns) ==
    \E i \in 1..Len(checkRuns) :
        checkRuns[i].status \in {"in_progress"}

hasPending(checkRuns) ==
    \E i \in 1..Len(checkRuns) :
        checkRuns[i].status \in {"queued", "in_progress"}

Overall(s) == [overallStatus |-> s, overallConclusion |-> s]

\* mutant: an empty check-run list counts as pending
CheckRunStep_EmptyIsPending(checkRuns) ==
    IF Len(checkRuns) > 0
    THEN IF hasFailure(checkRuns) THEN Overall("failure")
         ELSE IF hasPending(checkRuns) THEN Overall("pending")
         ELSE Overall("success")
    ELSE Overall("pending")

\* mutant: a pending check-run only sets overallStatus
CheckRunStep_StatusOnly(checkRuns) ==
    IF Len(checkRuns) > 0
    THEN IF hasFailure(checkRuns) THEN Overall("failure")
         ELSE IF hasPending(checkRuns)
              THEN [overallStatus |-> "pending", overallConclusion |-> "null"]
         ELSE Overall("success")
    ELSE Overall("success")

\* lines 53-74: initial value and the check-run step
CheckRunStep(checkRuns) ==
    IF Len(checkRuns) > 0
    THEN IF hasFailure(checkRuns) THEN Overall("failure")
         ELSE IF hasPending(checkRuns) THEN Overall("pending")
         ELSE Overall("success")
    ELSE Overall("success")

\* mutant: a check-run failure is kept against a pending commit status
CommitStatusStep_KeepFailure(overall, state) ==
    IF overall.overallStatus = "failure" THEN overall
    ELSE IF state = "pending" THEN Overall("pending")
    ELSE IF state = "failure" \/ state = "error" THEN Overall("failure")
    ELSE overall

\* mutant: a successful commit status resets the value
CommitStatusStep_SuccessResets(overall, state) ==
    IF state = "pending" THEN Overall("pending")
    ELSE IF state = "failure" \/ state = "error" THEN Overall("failure")
    ELSE IF state = "success" THEN Overall("success")
    ELSE overall

\* mutant: the state "error" is not handled
CommitStatusStep_NoError(overall, state) ==
    IF state = "pending" THEN Overall("pending")
    ELSE IF state = "failure" THEN Overall("failure")
    ELSE overall

\* lines 76-83: the commit-status step, applied to the value so far
CommitStatusStep(overall, state) ==
    IF state = "pending" THEN Overall("pending")
    ELSE IF state = "failure" \/ state = "error" THEN Overall("failure")
    ELSE overall

Reduce(checkRuns, state) == CommitStatusStep(CheckRunStep(checkRuns), state)

(***************************************************************************)
(* Responses.  A body is a set: empty for a null body, {json} otherwise.   *)
(***************************************************************************)
NoResponse == [http |-> 0, body |-> {}]

\* mutant: the 401 carries an error envelope
Unauthorized_WithBody ==
    [http |-> 401, body |-> { [status |-> "error", message |-> "Unauthorized"] }]

\* line 21: new Response(null, { status: 401 })
Unauthorized == [http |-> 401, body |-> {}]

\* mutant: the catch block forgets { status: 500 }
ErrorResponse_NoStatus(message) ==
    [http |-> 200, body |-> { [status |-> "error", message |-> message] }]

\* lines 112-125: the catch block
ErrorResponse(message) ==
    [http |-> 500, body |-> { [status |-> "error", message |-> message] }]

\* lines 91-100 and 101-108: field renaming of the upstream records
MapCheckRuns(check_runs) ==
    [i \in 1..Len(check_runs) |->
        [id |-> check_runs[i].id,
         status |-> check_runs[i].status,
         conclusion |-> check_runs[i].conclusion]]

MapStatuses(statuses) ==
    [i \in 1..Len(statuses) |-> [id |-> statuses[i].id, state |-> statuses[i].state]]

\* line 109
TotalCount(crData, stData) == crData.total_count + Len(stData.statuses)

\* lines 85-111
SuccessResponse(s, crData, stData) ==
    LET overall == Reduce(crData.check_runs, stData.state)
    IN  [http |-> 200,
         body |-> { [status |-> "success",
                     data |-> [sha |-> s,
                               overallStatus |-> overall.overallStatus,
                               overallConclusion |-> overall.overallConclusion,
                               checkRuns |-> MapCheckRuns(crData.check_runs),
                               commitStatuses |-> MapStatuses(stData.statuses),
                               totalCount |-> TotalCount(crData, stData)]] }]

(***************************************************************************)
(* Upstream answers.                                                       *)
(***************************************************************************)
WithIds(kinds) ==
    [i \in 1..Len(kinds) |->
        [id |-> i, status |-> kinds[i].status, conclusion |-> kinds[i].conclusion]]

\* checks.listForRef with per_page: the first page and the total over all pages
ListingOf(allRuns) ==
    [check_runs  |-> SubSeq(WithIds(allRuns), 1, Min(PerPage, Len(allRuns))),
     total_count |-> Len(allRuns)]

CombinedOf(state, states) ==
    [state    |-> state,
     statuses |-> [i \in 1..Len(states) |-> [id |-> i, state |-> states[i]]]]

NoListing == [check_runs |-> <<>>, total_count |-> 0]
NoCombined == [state |-> "absent", statuses |-> <<>>]

(***************************************************************************)
(* The handler, one action per await.                                      *)
(***************************************************************************)
AggInit ==
    /\ pc = "getAuth"
    /\ head \in Shas
    /\ auth = "unknown"
    /\ calls = <<>>
    /\ sha = "none"
    /\ checkRunsResponse = NoListing
    /\ statusResponse = NoCombined
    /\ response = NoResponse

Call(op, ref, ok) == [op |-> op, ref |-> ref, ok |-> ok]

\* mutant: the lookups name the branch, which the upstream resolves to its
\* head h at the time of the call
LookupRef_Branch(s, h) == h

\* lines 41 and 49: ref: sha
LookupRef(s, h) == s

\* upstream: a push moves the branch while the request is being handled
Push ==
    /\ pc \notin {"done", "idle"}
    /\ \E h \in Shas \ {head} : head' = h
    /\ UNCHANGED <<pc, auth, calls, sha, checkRunsResponse, statusResponse, response>>
    /\ UNCHANGED pollVars

\* lines 20-21
GetAuth ==
    /\ pc = "getAuth"
    /\ \E outcome \in {"session", "nosession", "throws"} :
        /\ auth' = outcome
        /\ IF outcome = "session"
           THEN /\ pc' = "getToken"
                /\ response' = response
           ELSE /\ pc' = "done"
                /\ response' = IF outcome = "nosession"
                               THEN Unauthorized
                               ELSE ErrorResponse("auth")
    /\ UNCHANGED <<head, calls, sha, checkRunsResponse, statusResponse>>
    /\ UNCHANGED pollVars

\* lines 23-26
GetToken ==
    /\ pc = "getToken"
    /\ \E outcome \in {"token", "null", "throws"} :
        /\ calls' = Append(calls, Call("getToken", "none", outcome = "token"))
        /\ IF outcome = "token"
           THEN /\ pc' = "getBranch"
                /\ response' = response
           ELSE /\ pc' = "done"
                /\ response' = ErrorResponse(IF outcome = "null"
                                             THEN "Token not found"
                                             ELSE "token")
    /\ UNCHANGED <<head, auth, sha, checkRunsResponse, statusResponse>>
    /\ UNCHANGED pollVars

\* lines 29-35
GetBranch ==
    /\ pc = "getBranch"
    /\ \/ /\ calls' = Append(calls, Call("getBranch", "branch", TRUE))
          /\ sha' = head
          /\ pc' = "listForRef"
          /\ response' = response
       \/ /\ calls' = Append(calls, Call("getBranch", "branch", FALSE))
          /\ sha' = sha
          /\ pc' = "done"
          /\ response' = ErrorResponse("Branch not found")
    /\ UNCHANGED <<head, auth, checkRunsResponse, statusResponse>>
    /\ UNCHANGED pollVars

\* lines 38-43
ListForRef ==
    /\ pc = "listForRef"
    /\ \/ \E allRuns \in SeqsUpTo(RunKinds, MaxRuns) :
            /\ calls' = Append(calls, Call("listForRef", LookupRef(sha, head), TRUE))
            /\ checkRunsResponse' = ListingOf(allRuns)
            /\ pc' = "getCombinedStatusForRef"
            /\ response' = response
       \/ /\ calls' = Append(calls, Call("listForRef", LookupRef(sha, head), FALSE))
          /\ checkRunsResponse' = checkRunsResponse
          /\ pc' = "done"
          /\ response' = ErrorResponse("listForRef")
    /\ UNCHANGED <<head, auth, sha, statusResponse>>
    /\ UNCHANGED pollVars

\* lines 46-50
GetCombinedStatusForRef ==
    /\ pc = "getCombinedStatusForRef"
    /\ \/ \E state \in CombinedStates, states \in SeqsUpTo(StatusStates, MaxStatuses) :
            /\ calls' = Append(calls, Call("getCombinedStatusForRef", LookupRef(sha, head), TRUE))
            /\ statusResponse' = CombinedOf(state, states)
            /\ pc' = "respond"
            /\ response' = response
       \/ /\ calls' = Append(calls, Call("getCombinedStatusForRef", LookupRef(sha, head), FALSE))
          /\ statusResponse' = statusResponse
          /\ pc' = "done"
          /\ response' = ErrorResponse("getCombinedStatusForRef")
    /\ UNCHANGED <<head, auth, sha, checkRunsResponse>>
    /\ UNCHANGED pollVars

\* lines 52-111
Respond ==
    /\ pc = "respond"
    /\ response' = SuccessResponse(sha, checkRunsResponse, statusResponse)
    /\ pc' = "done"
    /\ UNCHANGED <<head, auth, calls, sha, checkRunsResponse, statusResponse>>
    /\ UNCHANGED pollVars

AggNext ==
    \/ Push
    \/ GetAuth
    \/ GetToken
    \/ GetBranch
    \/ ListForRef
    \/ GetCombinedStatusForRef
    \/ Respond

(***************************************************************************)
(* The poller: BuildStatus (clear-cache.ts lines 79-199).                  *)
(*                                                                         *)
(* failures, isMounted, interval, effectKey and firstLoad are the closure  *)
(* of the effect instance that ran last.  The closure of an instance that  *)
(* was cleaned up is reachable only from its fetchStatus calls still       *)
(* suspended at an await: they find isMounted false and never read         *)
(* failures again, so a suspended call carries closure = "cleanedUp" in    *)
(* place of a copy of that closure.                                        *)
(***************************************************************************)
\* line 100: if (failures >= 3)
MaxFailures == 3
\* lines 130, 145, 161: 999
StopValue == 999

BranchKeys == {"k1", "k2"}

\* a fetchStatus call suspended at an await: phase "fetch" (line 115),
\* "text" (line 122) or "json" (line 134); key: the url of line 112
Fetch(closure, key, phase, resp) ==
    [closure |-> closure, key |-> key, phase |-> phase, resp |-> resp]

\* what the body of a 2xx response is; "unreadable": response.json() rejects
OkBodies == {"success", "permissionError", "notSuccess", "unreadable"}

\* messages of setError
HttpMessage == "Failed to fetch build status: status"
PayloadMessage == "data.message"
ThrownMessage == "err.message"

\* lines 82-85 and the first render
PollInit ==
    /\ branch \in BranchKeys \cup {"none"}
    /\ rendered = "new"
    /\ buildStatus = {}
    /\ loading = TRUE
    /\ error = "null"
    /\ failures = 0
    /\ isMounted = FALSE
    /\ interval = FALSE
    /\ effectKey = "none"
    /\ firstLoad = TRUE
    /\ inflight = EmptyBag

One(f) == SetToBag({f})

\* mutant: no new fetch while an earlier one is in flight
fetchStatus_SkipWhenBusy(f, key, first) ==
    IF f >= MaxFailures \/ inflight # EmptyBag
    THEN UNCHANGED <<loading, error, inflight>>
    ELSE /\ loading' = IF first THEN TRUE ELSE loading
         /\ error' = "null"
         /\ inflight' = inflight (+) One(Fetch("current", key, "fetch", "none"))

\* lines 100-117: fetchStatus from its guard up to the await of fetch(), in
\* the closure (f, key, first) of the instance calling it
fetchStatus(f, key, first) ==
    IF f >= MaxFailures
    THEN UNCHANGED <<loading, error, inflight>>
    ELSE /\ BagCardinality(inflight) < MaxInFlight
         /\ loading' = IF first THEN TRUE ELSE loading
         /\ error' = "null"
         /\ inflight' = inflight (+) One(Fetch("current", key, "fetch", "none"))

\* mutant: every caught error stops polling at once
FailuresAfterCatch_Stop(f) == StopValue

\* line 161
FailuresAfterCatch(f) == Min(f + 1, StopValue)

\* lines 150-168: catch and finally of the call c, entered with the counter at f
CatchFinally(c, f, message) ==
    /\ IF c.closure = "current" /\ isMounted
       THEN /\ error' = message
            /\ failures' = FailuresAfterCatch(f)
            /\ loading' = FALSE
       ELSE UNCHANGED <<error, failures, loading>>
    /\ inflight' = inflight (-) One(c)

\* mutant: the cleanup does not reach the suspended calls
CleanedUp_StillMounted(calls_) == calls_

\* lines 179-183 as seen by the suspended calls: their closure is cleaned up
CleanedUp(calls_) ==
    LET old(c) == Fetch("cleanedUp", c.key, c.phase, c.resp)
        olds == { old(c) : c \in BagToSet(calls_) }
    IN  [ o \in olds |->
            CopiesIn(o, calls_) + CopiesIn(Fetch("current", o.key, o.phase, o.resp), calls_) ]

\* lines 179-183 followed by lines 87-177 for the key k: the cleanup of the
\* previous instance, if any, and the effect body
RunEffect(k) ==
    IF k = "none"
    THEN /\ isMounted' = FALSE
         /\ interval' = FALSE
         /\ inflight' = CleanedUp(inflight)
         /\ UNCHANGED <<failures, effectKey, firstLoad, loading, error>>
    ELSE /\ failures' = 0
         /\ isMounted' = TRUE
         /\ interval' = TRUE
         /\ effectKey' = k
         /\ firstLoad' = (buildStatus = {})
         /\ BagCardinality(inflight) < MaxInFlight
         /\ loading' = IF buildStatus = {} THEN TRUE ELSE loading
         /\ error' = "null"
         /\ inflight' = CleanedUp(inflight) (+) One(Fetch("current", k, "fetch", "none"))

\* the first commit: the effect runs for the key rendered
Mount ==
    /\ rendered = "new"
    /\ rendered' = "live"
    /\ RunEffect(branch)
    /\ UNCHANGED <<branch, buildStatus>>
    /\ UNCHANGED aggVars

\* line 184: a dependency changed; cleanup of the old effect, then the new one
DepsChange ==
    /\ rendered = "live"
    /\ \E k \in (BranchKeys \cup {"none"}) \ {branch} :
        /\ branch' = k
        /\ RunEffect(k)
    /\ UNCHANGED <<rendered, buildStatus>>
    /\ UNCHANGED aggVars

\* the component is removed: lines 179-183
Unmount ==
    /\ rendered = "live"
    /\ rendered' = "unmounted"
    /\ isMounted' = FALSE
    /\ interval' = FALSE
    /\ inflight' = CleanedUp(inflight)
    /\ UNCHANGED <<branch, buildStatus, loading, error, failures, effectKey, firstLoad>>
    /\ UNCHANGED aggVars

\* lines 174-177: the interval fires and calls fetchStatus
TimerTick ==
    /\ interval
    /\ fetchStatus(failures, effectKey, firstLoad)
    /\ UNCHANGED <<branch, rendered, buildStatus, failures, isMounted, interval,
                   effectKey, firstLoad>>
    /\ UNCHANGED aggVars

\* line 115: the fetch settles: a response arrives, or it rejects (network
\* error, or the 10 s AbortSignal.timeout)
FetchSettles ==
    /\ \E c \in BagToSet(inflight) :
        /\ c.phase = "fetch"
        /\ \/ /\ inflight' = (inflight (-) One(c))
                                (+) One(Fetch(c.closure, c.key, "text", "notOk"))
              /\ UNCHANGED <<loading, error, failures>>
           \/ \E body \in OkBodies :
                /\ inflight' = (inflight (-) One(c))
                                  (+) One(Fetch(c.closure, c.key, "json", body))
                /\ UNCHANGED <<loading, error, failures>>
           \/ CatchFinally(c, failures, ThrownMessage)
    /\ UNCHANGED <<branch, rendered, buildStatus, isMounted, interval, effectKey,
                   firstLoad>>
    /\ UNCHANGED aggVars

\* lines 121-132, then 150-168: response.text() settled on a non-2xx response
NotOkProcessed ==
    /\ \E c \in BagToSet(inflight) :
        /\ c.phase = "text"
        /\ CatchFinally(c, StopValue, HttpMessage)
    /\ UNCHANGED <<branch, rendered, buildStatus, isMounted, interval, effectKey,
                   firstLoad>>
    /\ UNCHANGED aggVars

\* lines 134-149, then 150-168: response.json() settled on a 2xx response
JsonProcessed ==
    /\ \E c \in BagToSet(inflight) :
        /\ c.phase = "json"
        /\ IF c.resp \in {"success", "permissionError"}
              /\ c.closure = "current" /\ isMounted
           THEN /\ buildStatus' = { [key |-> c.key,
                                     permissionError |-> c.resp = "permissionError"] }
                /\ failures' = IF c.resp = "permissionError" THEN StopValue ELSE 0
                /\ loading' = FALSE
                /\ error' = error
                /\ inflight' = inflight (-) One(c)
           ELSE /\ CatchFinally(c, failures,
                                IF c.resp = "unreadable" THEN ThrownMessage
                                ELSE PayloadMessage)
                /\ buildStatus' = buildStatus
    /\ UNCHANGED <<branch, rendered, isMounted, interval, effectKey, firstLoad>>
    /\ UNCHANGED aggVars

\* mutant: an error does not hide a build status already held
View_KeepReady(bs, ld, er) ==
    IF ld /\ bs = {} THEN "loading"
    ELSE IF bs = {} THEN "placeholder"
    ELSE IF \E d \in bs : d.permissionError THEN "nothing"
    ELSE "summary"

\* lines 186-199 and 288-290: what the component renders
View(bs, ld, er) ==
    IF ld /\ bs = {} THEN "loading"
    ELSE IF er # "null" \/ bs = {} THEN "placeholder"
    ELSE IF \E d \in bs : d.permissionError THEN "nothing"
    ELSE "summary"

\* lines 254-265: the text of the summary for the build status data d
getStatusText(d) ==
    IF d.overallStatus = "pending" THEN "Building..."
    ELSE IF d.overallConclusion = "success" THEN "Build passing"
    ELSE IF d.overallConclusion = "failure" THEN "Build failing"
    ELSE "No builds"

PollNext ==
    \/ Mount
    \/ DepsChange
    \/ Unmount
    \/ TimerTick
    \/ FetchSettles
    \/ NotOkProcessed
    \/ JsonProcessed

\* the part of the state a specification leaves alone
AggIdle ==
    /\ pc = "idle"
    /\ head = "sha1"
    /\ auth = "unknown"
    /\ calls = <<>>
    /\ sha = "none"
    /\ checkRunsResponse = NoListing
    /\ statusResponse = NoCombined
    /\ response = NoResponse

PollIdle ==
    /\ branch = "none"
    /\ rendered = "unmounted"
    /\ buildStatus = {}
    /\ loading = TRUE
    /\ error = "null"
    /\ failures = 0
    /\ isMounted = FALSE
    /\ interval = FALSE
    /\ effectKey = "none"
    /\ firstLoad = TRUE
    /\ inflight = EmptyBag

Init == AggInit /\ PollIdle
Next == AggNext
Spec == Init /\ [][Next]_vars

PollerInit == PollInit /\ AggIdle
PollerNext == PollNext
PollerSpec == PollerInit /\ [][PollerNext]_vars

(***************************************************************************)
(* Properties of the aggregator.                                           *)
(***************************************************************************)
Succeeded == pc = "done" /\ response.http = 200
\* data of a success response (used under Succeeded only)
Data == (CHOOSE b \in response.body : TRUE).data
IsOverall(s) == Data.overallStatus = s /\ Data.overallConclusion = s

\* C1: a combined state "pending" yields "pending"/"pending" for every list
\* of check-runs, also one with a failure / cancelled / timed_out conclusion.
C1_PendingOverrides ==
    (Succeeded /\ statusResponse.state = "pending") => IsOverall("pending")

C1_Witness ==
    /\ Succeeded
    /\ statusResponse.state = "pending"
    /\ hasFailure(checkRunsResponse.check_runs)
    /\ IsOverall("pending")

\* C2: a list with a failure / cancelled / timed_out conclusion and a
\* combined state other than "pending" yields overallConclusion "failure".
C2_CheckRunFailure ==
    (/\ Succeeded
     /\ \E i \in 1..Len(checkRunsResponse.check_runs) :
            checkRunsResponse.check_runs[i].conclusion
                \in {"failure", "cancelled", "timed_out"}
     /\ statusResponse.state # "pending")
    => Data.overallConclusion = "failure"

\* Scenario B: one completed/failure, one in_progress, commit status success
C2_Witness ==
    /\ Succeeded
    /\ statusResponse.state = "success"
    /\ \E i, j \in 1..Len(checkRunsResponse.check_runs) :
        /\ checkRunsResponse.check_runs[i].conclusion = "timed_out"
        /\ checkRunsResponse.check_runs[j].status = "in_progress"
    /\ IsOverall("failure")

AnyQueuedOrInProgress ==
    \E i \in 1..Len(checkRunsResponse.check_runs) :
        checkRunsResponse.check_runs[i].status \in {"queued", "in_progress"}

AnyFailedConclusion ==
    \E i \in 1..Len(checkRunsResponse.check_runs) :
        checkRunsResponse.check_runs[i].conclusion
            \in {"failure", "cancelled", "timed_out"}

\* C3 as stated: a queued / in_progress check-run and a combined state
\* "success" or absent yield overallStatus "pending".
C3_Original ==
    (/\ Succeeded
     /\ AnyQueuedOrInProgress
     /\ statusResponse.state \in {"success", "absent"})
    => Data.overallStatus = "pending"

\* C3 amended: ... provided no check-run of the list has conclusion
\* failure / cancelled / timed_out.
C3_PendingCheckRun ==
    (/\ Succeeded
     /\ AnyQueuedOrInProgress
     /\ ~AnyFailedConclusion
     /\ statusResponse.state \in {"success", "absent"})
    => Data.overallStatus = "pending"

C3_Witness ==
    /\ Succeeded
    /\ \E i \in 1..Len(checkRunsResponse.check_runs) :
        checkRunsResponse.check_runs[i].status = "queued"
    /\ ~AnyFailedConclusion
    /\ statusResponse.state = "absent"
    /\ IsOverall("pending")

\* C4: totalCount is the number of check-run records returned plus the
\* number of commit-status records returned.
C4_TotalCount ==
    Succeeded => Data.totalCount = Len(Data.checkRuns) + Len(Data.commitStatuses)

OverallValues == {"success", "pending", "failure"}

NonSuccessSignal ==
    \/ AnyFailedConclusion
    \/ AnyQueuedOrInProgress
    \/ statusResponse.state \in {"pending", "failure", "error"}

\* C5: the pair is within success / pending / failure, and a non-success
\* signal of either source never ends as "success".
C5_NeverBackToSuccess ==
    Succeeded =>
        /\ Data.overallStatus \in OverallValues
        /\ Data.overallConclusion \in OverallValues
        /\ NonSuccessSignal =>
              (Data.overallStatus # "success" /\ Data.overallConclusion # "success")

\* a check-run-derived "pending" with a successful commit status on top
C5_Witness ==
    /\ Succeeded
    /\ AnyQueuedOrInProgress
    /\ ~AnyFailedConclusion
    /\ statusResponse.state = "success"
    /\ Len(statusResponse.statuses) > 0
    /\ IsOverall("pending")

\* C6: a combined state "failure" or "error" yields "failure"/"failure" for
\* every list of check-runs.
C6_CommitStatusFailure ==
    (Succeeded /\ statusResponse.state \in {"failure", "error"}) => IsOverall("failure")

C6_Witness ==
    /\ Succeeded
    /\ statusResponse.state = "error"
    /\ AnyQueuedOrInProgress
    /\ ~AnyFailedConclusion
    /\ IsOverall("failure")

\* C7: no failed conclusion, nothing queued or in progress (the empty list
\* included) and a combined state "success" yield "success"/"success".
C7_AllGreen ==
    (/\ Succeeded
     /\ ~AnyFailedConclusion
     /\ ~AnyQueuedOrInProgress
     /\ statusResponse.state = "success")
    => IsOverall("success")

C7_Witness ==
    /\ Succeeded
    /\ Len(checkRunsResponse.check_runs) = 0
    /\ statusResponse.state = "success"
    /\ IsOverall("success")

UpstreamOps == {"getBranch", "listForRef", "getCombinedStatusForRef"}
AnyCallFailed == \E i \in 1..Len(calls) : ~calls[i].ok
AllUpstreamOk ==
    \A op \in UpstreamOps : \E i \in 1..Len(calls) : calls[i].op = op /\ calls[i].ok
HasData == \E b \in response.body : "data" \in DOMAIN b

\* C8: with a session, a failed token resolution or upstream call is answered
\* by 500 and an error envelope without data; data is present only if all
\* three upstream calls succeeded.
C8_NoPartialResult ==
    /\ (pc = "done" /\ auth = "session" /\ AnyCallFailed) =>
          /\ response.http = 500
          /\ response.body # {}
          /\ \A b \in response.body : b.status = "error" /\ "data" \notin DOMAIN b
    /\ HasData => AllUpstreamOk

\* the check-run listing fails after the branch lookup succeeded
C8_Witness ==
    /\ pc = "done"
    /\ auth = "session"
    /\ Len(calls) = 3
    /\ calls[2].ok
    /\ ~calls[3].ok
    /\ response.http = 500

\* C9: without a session the answer is 401 with an empty body, and neither
\* getToken nor an upstream call is made.
C9_Unauthorized ==
    auth = "nosession" =>
        /\ pc = "done"
        /\ response.http = 401
        /\ response.body = {}
        /\ calls = <<>>

C9_Witness == auth = "nosession" /\ pc = "done" /\ response.http = 401

CallOrder == <<"getToken", "getBranch", "listForRef", "getCombinedStatusForRef">>

\* C17: the upstream calls are made in the order branch lookup, check-run
\* listing, combined status; a failed call is the last one; both lookups
\* name the sha the branch lookup returned, which is also the sha of the
\* response, whatever the branch head does meanwhile.
C17_OneShaInOrder ==
    /\ []( /\ Len(calls) <= 4
           /\ \A i \in 1..Len(calls) :
                /\ calls[i].op = CallOrder[i]
                /\ i < Len(calls) => calls[i].ok
                /\ calls[i].op \in {"listForRef", "getCombinedStatusForRef"}
                      => calls[i].ref = sha
           /\ Succeeded => Data.sha = sha )
    /\ [][ /\ (pc = "getBranch" /\ pc' = "listForRef") => sha' = head
           /\ pc # "getBranch" => sha' = sha ]_vars

\* the branch moved after the branch lookup; the response is about the sha
\* the lookup returned
C17_Witness ==
    /\ Succeeded
    /\ head # sha
    /\ Data.sha = sha
    /\ Len(calls) = 4
    /\ calls[3].ref = sha
    /\ calls[4].ref = sha

\* C20: in a success response overallStatus equals overallConclusion, so
\* the text the client derives from it is never the fallback "No builds".
C20_NoFallbackView ==
    Succeeded =>
        /\ Data.overallStatus = Data.overallConclusion
        /\ getStatusText(Data) \in {"Building...", "Build passing", "Build failing"}

C20_Witness ==
    /\ Succeeded
    /\ Data.overallStatus = "failure"
    /\ Data.overallConclusion = "failure"
    /\ getStatusText(Data) = "Build failing"

(***************************************************************************)
(* Properties of the poller.                                               *)
(***************************************************************************)
\* C10 as stated: every failed fetch leaves the counter at 999, so the
\* counter only ever holds 0 or 999.
C10_Original == failures \in {0, 999}

\* the suspended calls of either side of a step
Fetches == BagToSet(inflight) \cup BagToSet(inflight')
\* this step ran the suspended call c to its end / suspended the new call c
Processed(c) ==
    /\ BagCardinality(inflight') < BagCardinality(inflight)
    /\ CopiesIn(c, inflight') < CopiesIn(c, inflight)
Issued(c) ==
    /\ c.closure = "current"
    /\ c.phase = "fetch"
    /\ CopiesIn(c, inflight') > CopiesIn(c, inflight)

\* C10 amended: a non-2xx response leaves the counter at 999 as soon as it
\* is processed; a 2xx payload whose status is not "success" raises the
\* counter by one (capped at 999), so the counter passes through 1, 2, 3;
\* no fetch is issued once the counter is 3 or more.
C10_FailureCounter ==
    [][ \A c \in Fetches :
          /\ (c.closure = "current" /\ isMounted /\ c.phase = "text" /\ Processed(c))
             => failures' = 999
          /\ (/\ c.closure = "current" /\ isMounted
              /\ c.phase = "json" /\ c.resp = "notSuccess"
              /\ Processed(c))
             => failures' = (IF failures + 1 < 999 THEN failures + 1 ELSE 999)
          /\ Issued(c) => failures' < 3
      ]_vars

\* the guard of line 100 is reached by counting: three failures, none of
\* them a non-2xx response, and the timer still armed
C10_Witness ==
    /\ failures = 3
    /\ isMounted
    /\ interval
    /\ error # "null"
    /\ inflight = EmptyBag

\* a step that ran to its end a call of the live instance suspended at phase
ProcessedLive(phase) ==
    \E c \in Fetches :
        c.closure = "current" /\ isMounted /\ c.phase = phase /\ Processed(c)
\* a step in which the effect did not run again and the component stayed
SameMount == branch' = branch /\ rendered' = rendered

C12_SuspendedIsTerminal ==
    [][ (isMounted /\ failures = 999 /\ SameMount) =>
            /\ failures' = 999
            /\ \A c \in Fetches : ~Issued(c) ]_vars

\* a call belongs to a mount that was torn down
TornDown(c) == c.closure = "cleanedUp" \/ rendered = "unmounted" \/ c.key # branch

\* C13: after teardown the timer of that mount starts no new fetch (every
\* fetch issued belongs to the live instance and the key rendered), and the
\* completion of a call of a torn-down mount changes neither the build
\* status, nor the loading flag, nor the error.
C13_TeardownSuppresses ==
    [][ \A c \in Fetches :
          /\ (TornDown(c) /\ Processed(c)) =>
                (buildStatus' = buildStatus /\ loading' = loading /\ error' = error)
          /\ Issued(c) =>
                (rendered' = "live" /\ isMounted' /\ interval' /\ c.key = branch')
      ]_vars

\* the component was removed while its first fetch was in flight; the fetch
\* completed since, and the loading flag it would have cleared is still set
C13_Witness ==
    /\ rendered = "unmounted"
    /\ effectKey # "none"
    /\ inflight = EmptyBag
    /\ loading
    /\ buildStatus = {}
    /\ error = "null"
    /\ failures = 0

\* a step that ran to its end the call of the live instance whose 2xx body is resp
ProcessedBody(resp) ==
    \E c \in Fetches :
        /\ c.closure = "current" /\ isMounted
        /\ c.phase = "json" /\ c.resp = resp
        /\ Processed(c)

\* the live instance was stopped by a permissionError result it stored
StoppedByPermissionError ==
    /\ isMounted
    /\ failures = 999
    /\ error = "null"
    /\ buildStatus = { [key |-> effectKey, permissionError |-> TRUE] }

\* C14 as stated: a success with permissionError is stored and suspends the
\* mount, which then issues no further fetch; a success without it is stored
\* and sets the counter to 0.
C14_PermissionErrorSuspends ==
    [][ /\ ProcessedBody("permissionError") =>
              /\ \E d \in buildStatus' : d.permissionError
              /\ failures' = 999
        /\ ProcessedBody("success") =>
              /\ \E d \in buildStatus' : ~d.permissionError
              /\ failures' = 0
        /\ (StoppedByPermissionError /\ SameMount) =>
              /\ failures' >= 3
              /\ \A c \in Fetches : ~Issued(c)
      ]_vars

\* C15 as stated: after a change of the key nothing of the previous key
\* remains, so the build status on screen is one of the key rendered.
C15_NoStaleStatus ==
    (rendered = "live" /\ branch # "none"
     /\ View(buildStatus, loading, error) = "summary")
        => \A d \in buildStatus : d.key = branch

\* a timer tick that suspends a new fetch
TickIssues == TimerTick /\ BagCardinality(inflight') > BagCardinality(inflight)

\* C16: while the instance is live with the counter below 3 the timer is
\* armed and its tick issues a fetch, also with an earlier fetch in flight
\* (up to the MaxInFlight calls the model holds); a fetch that rejects (the
\* 10 s timeout) counts as a failure; a success without permissionError
\* leaves the counter at 0 and the timer armed.
C16_PollingContinues ==
    /\ [](  (rendered = "live" /\ isMounted /\ failures < 3
             /\ BagCardinality(inflight) < MaxInFlight)
            => (interval /\ ENABLED TickIssues) )
    /\ [][ /\ ProcessedLive("fetch") =>
                 /\ failures' = (IF failures + 1 < 999 THEN failures + 1 ELSE 999)
                 /\ error' # "null"
           /\ ProcessedBody("success") =>
                 (failures' = 0 /\ isMounted' /\ interval')
         ]_vars

\* a build status was stored, polling went on, and a tick issued a fetch
\* while the fetch of the tick before it was still in flight
C16_Witness ==
    /\ rendered = "live"
    /\ isMounted
    /\ \E d \in buildStatus : ~d.permissionError /\ d.key = branch
    /\ ~firstLoad
    /\ CopiesIn(Fetch("current", branch, "fetch", "none"), inflight) = 2

\* C18: a response to a fetch issued for a previous key is never stored
\* once the key changed: processing a call of another key leaves the build
\* status alone, and whatever is stored is of the key rendered.
C18_NoStaleResponseStored ==
    [][ /\ \A c \in Fetches :
              (Processed(c) /\ c.key # branch) => buildStatus' = buildStatus
        /\ buildStatus' # buildStatus =>
              \A d \in buildStatus' : d.key = branch'
      ]_vars

\* the response for the new key is stored while a successful response for
\* the previous key is still to be processed
C18_Witness ==
    /\ rendered = "live"
    /\ \E d \in buildStatus : d.key = branch
    /\ \E c \in BagToSet(inflight) :
        /\ c.key # branch
        /\ c.phase = "json"
        /\ c.resp = "success"

\* C19 as stated: while the loading indicator is shown a fetch of the live
\* instance is in flight.
C19_LoadingMeansFetching ==
    (rendered = "live" /\ View(buildStatus, loading, error) = "loading")
        => \E c \in BagToSet(inflight) : c.closure = "current"

====
